---- MODULE Spec2Model ----
(***************************************************************************)
(* Model of the go_cat HTTP service (src/wiki.go and its net/http variant  *)
(* src/unnamed/part_000): a Redis-backed profile cache with lazy           *)
(* population from an identity provider, an atomic score increment, a bulk *)
(* listing and a top-10 leaderboard.                                       *)
(*                                                                         *)
(* Every round trip to Redis or to the provider is one step, so requests   *)
(* served by different workers interleave between round trips.             *)
(***************************************************************************)
EXTENDS Integers, Sequences, FiniteSets, TLC

(***************************************************************************)
(* Bounds of the model.                                                    *)
(***************************************************************************)
\* requests accepted in one behaviour
MaxReq ==
  3
\* transport errors the store connection suffers in one behaviour
MaxFaults ==
  1
\* records a pre-populated store holds (leaderboard specifications)
MaxPop ==
  11
\* records a store shared with foreign writers holds
MaxForeign ==
  3

(***************************************************************************)
(* Program constants.                                                      *)
(***************************************************************************)
\* "Get top 10 users": if len(topScores) > 10 { topScores = topScores[:10] }
TopLimit ==
  10
\* pdqsort_func of package sort: const maxInsertion = 12
maxInsertion ==
  12
\* the shortest slice sort.Slice does not insertion-sort
TiePop ==
  maxInsertion + 1
StatusOK ==
  200
StatusBadRequest ==
  400
StatusInternalServerError ==
  500

\* the workers of the HTTP server: one goroutine per request in flight
Procs ==
  {"w1", "w2"}

AllSubs ==
  << "s01", "s02", "s03", "s04", "s05", "s06", "s07", "s08",
     "s09", "s10", "s11", "s12", "s13", "s14", "s15", "s16" >>
\* the subjects requests name
ReqSubs ==
  {AllSubs[1], AllSubs[2]}
SubIndex(s) ==
  CHOOSE i \in 1..Len(AllSubs) : AllSubs[i] = s

(***************************************************************************)
(* strconv.Itoa / strconv.Atoi and Redis' integer parsing.  A score is     *)
(* stored as the sequence of its characters.                               *)
(***************************************************************************)
Digits ==
  << "0", "1", "2", "3", "4", "5", "6", "7", "8", "9" >>
IsDigit(c) ==
  \E i \in 1..10 : Digits[i] = c
DigitVal(c) ==
  (CHOOSE i \in 1..10 : Digits[i] = c) - 1

RECURSIVE NatToStr(_)
NatToStr(n) ==
  IF n < 10 THEN << Digits[n + 1] >>
  ELSE NatToStr(n \div 10) \o << Digits[(n % 10) + 1] >>

\* the decimal text HMSet and HINCRBY store for an integer
Itoa(n) ==
  IF n < 0 THEN << "-" >> \o NatToStr(-n) ELSE NatToStr(n)

RECURSIVE ParseNat(_)
ParseNat(s) ==
  IF s = << >> THEN 0
  ELSE ParseNat(SubSeq(s, 1, Len(s) - 1)) * 10 + DigitVal(s[Len(s)])

\* strconv.Atoi: an optional sign, then one or more decimal digits
Atoi(s) ==
  LET signed == s # << >> /\ s[1] \in {"+", "-"}
      body == IF signed THEN Tail(s) ELSE s
  IN  IF body = << >> \/ \E i \in 1..Len(body) : ~IsDigit(body[i])
      THEN [err |-> TRUE, val |-> 0]
      ELSE [err |-> FALSE,
            val |-> IF signed /\ s[1] = "-" THEN -ParseNat(body)
                    ELSE ParseNat(body)]

\* Redis string2ll: no "+", no leading zeros, no "-0"
String2ll(s) ==
  LET neg == s # << >> /\ s[1] = "-"
      body == IF neg THEN Tail(s) ELSE s
  IN  IF \/ body = << >>
         \/ \E i \in 1..Len(body) : ~IsDigit(body[i])
         \/ (body[1] = "0" /\ (Len(body) > 1 \/ neg))
      THEN [err |-> TRUE, val |-> 0]
      ELSE [err |-> FALSE,
            val |-> IF neg THEN -ParseNat(body) ELSE ParseNat(body)]

(***************************************************************************)
(* The Redis store: one hash per key "user:<sub>".  A key with no field    *)
(* does not exist.                                                         *)
(***************************************************************************)
RedisKey(s) ==
  << "user:", s >>
TrimPrefix(key) ==
  IF Len(key) = 2 /\ key[1] = "user:" THEN key[2] ELSE key

Subjects ==
  {AllSubs[i] : i \in 1..TiePop}
KeySpace ==
  {RedisKey(s) : s \in Subjects}

EmptyHash ==
  [f \in {} |-> ""]

HGetAll(st, key) ==
  st[key]

\* HMSET overwrites the given fields and keeps the others
HMSet(st, key, fields) ==
  [st EXCEPT ![key] = fields @@ st[key]]

\* variant: the reply is the value before the increment
HIncrByStale(st, key, field, delta) ==
  LET cur == IF field \in DOMAIN st[key] THEN String2ll(st[key][field])
             ELSE [err |-> FALSE, val |-> 0]
      new == cur.val + delta
  IN  IF cur.err THEN [err |-> TRUE, val |-> 0, st |-> st]
      ELSE [err |-> FALSE, val |-> cur.val,
            st |-> [st EXCEPT ![key] = (field :> Itoa(new)) @@ st[key]]]

\* variant: an absent field counts as 1
HIncrByFromOne(st, key, field, delta) ==
  LET cur == IF field \in DOMAIN st[key] THEN String2ll(st[key][field])
             ELSE [err |-> FALSE, val |-> 1]
      new == cur.val + delta
  IN  IF cur.err THEN [err |-> TRUE, val |-> 0, st |-> st]
      ELSE [err |-> FALSE, val |-> new,
            st |-> [st EXCEPT ![key] = (field :> Itoa(new)) @@ st[key]]]

\* variant: an absent field is not created
HIncrByNoCreate(st, key, field, delta) ==
  LET cur == IF field \in DOMAIN st[key] THEN String2ll(st[key][field])
             ELSE [err |-> FALSE, val |-> 0]
      new == cur.val + delta
  IN  IF cur.err THEN [err |-> TRUE, val |-> 0, st |-> st]
      ELSE IF field \notin DOMAIN st[key] THEN [err |-> FALSE, val |-> new, st |-> st]
      ELSE [err |-> FALSE, val |-> new,
            st |-> [st EXCEPT ![key] = (field :> Itoa(new)) @@ st[key]]]

\* variant: the hash is replaced by the one incremented field
HIncrByClears(st, key, field, delta) ==
  LET cur == IF field \in DOMAIN st[key] THEN String2ll(st[key][field])
             ELSE [err |-> FALSE, val |-> 0]
      new == cur.val + delta
  IN  IF cur.err THEN [err |-> TRUE, val |-> 0, st |-> st]
      ELSE [err |-> FALSE, val |-> new,
            st |-> [st EXCEPT ![key] = (field :> Itoa(new))]]

\* variant: a field that exists is not rewritten
HIncrByLostWrite(st, key, field, delta) ==
  LET cur == IF field \in DOMAIN st[key] THEN String2ll(st[key][field])
             ELSE [err |-> FALSE, val |-> 0]
      new == cur.val + delta
  IN  IF cur.err THEN [err |-> TRUE, val |-> 0, st |-> st]
      ELSE IF field \in DOMAIN st[key] THEN [err |-> FALSE, val |-> new, st |-> st]
      ELSE [err |-> FALSE, val |-> new,
            st |-> [st EXCEPT ![key] = (field :> Itoa(new)) @@ st[key]]]

\* HINCRBY: the field counts as 0 when absent; an error when it holds no integer
HIncrBy(st, key, field, delta) ==
  LET cur == IF field \in DOMAIN st[key] THEN String2ll(st[key][field])
             ELSE [err |-> FALSE, val |-> 0]
      new == cur.val + delta
  IN  IF cur.err THEN [err |-> TRUE, val |-> 0, st |-> st]
      ELSE [err |-> FALSE, val |-> new,
            st |-> [st EXCEPT ![key] = (field :> Itoa(new)) @@ st[key]]]

\* KEYS user:* : the existing keys
Keys(st) ==
  {k \in KeySpace : DOMAIN st[k] # {}}

(***************************************************************************)
(* UserData and the store-only read.                                       *)
(***************************************************************************)
UserData(s, i, n, m, sc) ==
  [Sub |-> s, Image |-> i, Nickname |-> n, Name |-> m, Score |-> sc]
ZeroUserData ==
  UserData("", "", "", "", 0)

\* vals[k] of a Go map: the zero value when the key is missing
MapGet(vals, k) ==
  IF k \in DOMAIN vals THEN vals[k] ELSE ""

\* variant: a score of 0 is taken for a missing score
getUserDataFromRedisZeroIsError(st, s, down) ==
  LET vals == HGetAll(st, RedisKey(s)) IN
  IF down THEN [err |-> "unavailable", data |-> ZeroUserData]
  ELSE IF "score" \notin DOMAIN vals \/ vals["score"] = << "0" >>
  THEN [err |-> "notfound", data |-> ZeroUserData]
  ELSE IF Atoi(vals["score"]).err
  THEN [err |-> "malformed", data |-> ZeroUserData]
  ELSE [err |-> "none",
        data |-> UserData(MapGet(vals, "sub"), MapGet(vals, "image"),
                          MapGet(vals, "nickname"), MapGet(vals, "name"),
                          Atoi(vals["score"]).val)]

\* variant: the "ok" of vals["score"] is not looked at, and the conversion
\* error is dropped: a missing or non-numeric score reads as 0
getUserDataFromRedisLenient(st, s, down) ==
  LET vals == HGetAll(st, RedisKey(s)) IN
  IF down THEN [err |-> "unavailable", data |-> ZeroUserData]
  ELSE [err |-> "none",
        data |-> UserData(MapGet(vals, "sub"), MapGet(vals, "image"),
                          MapGet(vals, "nickname"), MapGet(vals, "name"),
                          IF "score" \in DOMAIN vals
                          THEN Atoi(vals["score"]).val ELSE 0)]

\* variant: a record without a sub field counts as missing
getUserDataFromRedisNeedsSub(st, s, down) ==
  LET vals == HGetAll(st, RedisKey(s)) IN
  IF down THEN [err |-> "unavailable", data |-> ZeroUserData]
  ELSE IF "score" \notin DOMAIN vals \/ "sub" \notin DOMAIN vals
  THEN [err |-> "notfound", data |-> ZeroUserData]
  ELSE IF Atoi(vals["score"]).err
  THEN [err |-> "malformed", data |-> ZeroUserData]
  ELSE [err |-> "none",
        data |-> UserData(MapGet(vals, "sub"), MapGet(vals, "image"),
                          MapGet(vals, "nickname"), MapGet(vals, "name"),
                          Atoi(vals["score"]).val)]

\* getUserDataFromRedis; down = the HGETALL round trip fails
getUserDataFromRedis(st, s, down) ==
  LET vals == HGetAll(st, RedisKey(s)) IN
  IF down THEN [err |-> "unavailable", data |-> ZeroUserData]
  ELSE IF "score" \notin DOMAIN vals
  THEN [err |-> "notfound", data |-> ZeroUserData]
  ELSE IF Atoi(vals["score"]).err
  THEN [err |-> "malformed", data |-> ZeroUserData]
  ELSE [err |-> "none",
        data |-> UserData(MapGet(vals, "sub"), MapGet(vals, "image"),
                          MapGet(vals, "nickname"), MapGet(vals, "name"),
                          Atoi(vals["score"]).val)]

\* variant: the name field is filled from the nickname
ProfileFieldsNameFromNickname(u) ==
  ("sub" :> u.Sub) @@ ("image" :> u.Image) @@ ("nickname" :> u.Nickname)
    @@ ("name" :> u.Nickname) @@ ("score" :> Itoa(u.Score))

\* variant: the score is left out of the field map
ProfileFieldsNoScore(u) ==
  ("sub" :> u.Sub) @@ ("image" :> u.Image) @@ ("nickname" :> u.Nickname)
    @@ ("name" :> u.Name)

\* the field map the /user/ handler hands to HMSet
ProfileFields(u) ==
  ("sub" :> u.Sub) @@ ("image" :> u.Image) @@ ("nickname" :> u.Nickname)
    @@ ("name" :> u.Name) @@ ("score" :> Itoa(u.Score))

\* what the identity provider may answer for a subject (its JSON body,
\* unmarshalled): user_id, picture, nickname, name, score
ProviderScores ==
  {0, 3}
ProviderResponses(s) ==
  {UserData(id, "img", "nick", "nm", sc) : id \in {s}, sc \in ProviderScores}

(***************************************************************************)
(* sort.Slice(topScores, less) with less(i, j) = Score[i] > Score[j].      *)
(* Every slice the model sorts has at most 12 elements, for which          *)
(* sort.Slice runs insertionSortLessFunc:                                  *)
(*   for i := a + 1; i < b; i++ {                                          *)
(*     for j := i; j > a && less(j, j-1); j-- { swap(j, j-1) } }           *)
(***************************************************************************)
\* variant: the comparison is turned around
LessAscending(x, y) ==
  x.Score < y.Score

Less(x, y) ==
  x.Score > y.Score

Swap(seq, i, j) ==
  [seq EXCEPT ![i] = seq[j], ![j] = seq[i]]

RECURSIVE SiftDown(_, _)
SiftDown(seq, j) ==
  IF j > 1 /\ Less(seq[j], seq[j - 1]) THEN SiftDown(Swap(seq, j, j - 1), j - 1)
  ELSE seq

RECURSIVE InsertionSortFrom(_, _)
InsertionSortFrom(seq, i) ==
  IF i > Len(seq) THEN seq ELSE InsertionSortFrom(SiftDown(seq, i), i + 1)

\* sort.Slice is the library's pattern-defeating quicksort (go 1.22): a slice
\* of at most maxInsertion elements is insertion-sorted; a longer one is
\* left alone when it is found in order, otherwise partitioned around the
\* median of three of its elements and the two sides sorted in turn.  The
\* steps that only slices longer than TiePop reach (pattern breaking, the
\* partition of equal elements, heap sort) are not modelled: no store of the
\* specifications holds more than TiePop records.
\* order2_func on the elements at x and y: the two in order, and the swap count
Order2(seq, x, y, swaps) ==
  IF Less(seq[y], seq[x]) THEN [a |-> y, b |-> x, swaps |-> swaps + 1]
  ELSE [a |-> x, b |-> y, swaps |-> swaps]

\* median_func: the position of the median of the elements at a, b and c
Median(seq, a, b, c) ==
  LET o1 == Order2(seq, a, b, 0)
      o2 == Order2(seq, o1.b, c, o1.swaps)
      o3 == Order2(seq, o1.a, o2.a, o2.swaps)
  IN  [pivot |-> o3.b, swaps |-> o3.swaps]

\* choosePivot_func for a slice of 8 to 49 elements; positions count from 1
ChoosePivot(seq) ==
  LET l == Len(seq) IN
  Median(seq, 1 + (l \div 4), 1 + (l \div 4) * 2, 1 + (l \div 4) * 3)

\* partialInsertionSort_func on a slice too short for shifting: is it in order
InOrder(seq) ==
  \A i \in 2..Len(seq) : ~Less(seq[i], seq[i - 1])

\* for i <= j && less(i, a) { i++ }
RECURSIVE ScanUp(_, _, _)
ScanUp(seq, i, j) ==
  IF i <= j /\ Less(seq[i], seq[1]) THEN ScanUp(seq, i + 1, j) ELSE i

\* for i <= j && !less(j, a) { j-- }
RECURSIVE ScanDown(_, _, _)
ScanDown(seq, i, j) ==
  IF i <= j /\ ~Less(seq[j], seq[1]) THEN ScanDown(seq, i, j - 1) ELSE j

\* the loop of partition_func, the pivot standing at the first position
RECURSIVE PartitionLoop(_, _, _)
PartitionLoop(seq, i, j) ==
  LET i2 == ScanUp(seq, i, j)
      j2 == ScanDown(seq, i2, j)
  IN  IF i2 > j2 THEN [seq |-> Swap(seq, j2, 1), mid |-> j2]
      ELSE PartitionLoop(Swap(seq, i2, j2), i2 + 1, j2 - 1)

\* partition_func: elements that sort before the pivot, the pivot, the others
Partition(seq, pivot) ==
  PartitionLoop(Swap(seq, 1, pivot), 2, Len(seq))

RECURSIVE SortSlice(_)
SortSlice(seq) ==
  IF Len(seq) <= maxInsertion THEN InsertionSortFrom(seq, 2)
  ELSE IF InOrder(seq) THEN seq
  ELSE LET part == Partition(seq, ChoosePivot(seq).pivot) IN
       SortSlice(SubSeq(part.seq, 1, part.mid - 1))
         \o << part.seq[part.mid] >>
         \o SortSlice(SubSeq(part.seq, part.mid + 1, Len(seq)))

\* variant: the last 10 are kept
TruncateTail(seq) ==
  IF Len(seq) > TopLimit THEN SubSeq(seq, Len(seq) - TopLimit + 1, Len(seq))
  ELSE seq

\* topScores[:10] when len(topScores) > 10
Truncate(seq) ==
  IF Len(seq) > TopLimit THEN SubSeq(seq, 1, TopLimit) ELSE seq

UserScore(s, u) ==
  [Sub |-> s, Score |-> u.Score, Nickname |-> u.Nickname, Image |-> u.Image]

(***************************************************************************)
(* The order KEYS returns is unspecified: the model draws the ascending or *)
(* the descending order of the subjects' indices.                          *)
(***************************************************************************)
RECURSIVE Ascending(_)
Ascending(S) ==
  IF S = {} THEN << >>
  ELSE LET k == CHOOSE x \in S :
                  \A y \in S : SubIndex(TrimPrefix(x)) <= SubIndex(TrimPrefix(y))
       IN  << k >> \o Ascending(S \ {k})

Reverse(seq) ==
  [i \in 1..Len(seq) |-> seq[Len(seq) + 1 - i]]

Enumerations(S) ==
  {Ascending(S), Reverse(Ascending(S))}

(***************************************************************************)
(* State.                                                                  *)
(***************************************************************************)
VARIABLES
  store,        \* Redis: key -> hash (field -> text)
  pc,           \* worker -> where its request stands
  op,           \* worker -> the handler it runs
  sub,          \* worker -> the request's sub parameter
  err,          \* worker -> outcome of the handler's getUserDataFromRedis
  apiUserData,  \* worker -> the provider's answer
  userData,     \* worker -> the UserData of the response
  newScore,     \* worker -> HINCRBY's reply
  keys,         \* worker -> the keys KEYS returned
  idx,          \* worker -> loop position in keys
  acc,          \* worker -> the users / topScores slice
  status,       \* worker -> HTTP status written (0: none yet)
  nreq,         \* requests accepted so far
  nfault,       \* transport errors so far
  calls,        \* history: worker -> provider calls of its request
  late,         \* history: workers whose request began on a populated key
  populated,    \* history: keys a populate has written
  base,         \* history: key -> score the last populate wrote (0: none)
  returned,     \* history: key -> HINCRBY replies since the last populate
  streak,       \* history: key -> completed increments while nothing else
                \*          modified the key (-1: something else did)
  ord,          \* history: worker -> position of its increment in the streak
  failedAt      \* history: worker -> loop positions whose read failed in transit
                \*          (0: the KEYS round trip)

vars ==
  << store, pc, op, sub, err, apiUserData, userData, newScore, keys, idx, acc,
     status, nreq, nfault, calls, late, populated, base, returned, streak, ord,
     failedAt >>


\* the outcomes of one round trip to the store: FALSE = answered, TRUE = failed
StoreFaults ==
  IF nfault < MaxFaults THEN {FALSE, TRUE} ELSE {FALSE}
Count(down) ==
  IF down THEN nfault + 1 ELSE nfault

InitWorkers ==
  /\ pc = [p \in Procs |-> "idle"]
  /\ op = [p \in Procs |-> "none"]
  /\ sub = [p \in Procs |-> ""]
  /\ err = [p \in Procs |-> "none"]
  /\ apiUserData = [p \in Procs |-> ZeroUserData]
  /\ userData = [p \in Procs |-> ZeroUserData]
  /\ newScore = [p \in Procs |-> 0]
  /\ keys = [p \in Procs |-> << >>]
  /\ idx = [p \in Procs |-> 1]
  /\ acc = [p \in Procs |-> << >>]
  /\ status = [p \in Procs |-> 0]
  /\ nreq = 0
  /\ nfault = 0
  /\ calls = [p \in Procs |-> 0]
  /\ late = {}
  /\ populated = {}
  /\ base = [k \in KeySpace |-> 0]
  /\ returned = [k \in KeySpace |-> << >>]
  /\ streak = [k \in KeySpace |-> 0]
  /\ ord = [p \in Procs |-> 0]
  /\ failedAt = [p \in Procs |-> {}]

\* the server starts against an empty store
Init ==
  /\ store = [k \in KeySpace |-> EmptyHash]
  /\ InitWorkers

(***************************************************************************)
(* GET /user/:sub  (getUserData)                                           *)
(***************************************************************************)
\* variant: a transport error of the lookup ends the request
AfterLookupUnavailableTerminal(e) ==
  IF e \in {"none", "unavailable"} THEN "done" ELSE "fetch"

\* "if err != nil" after the cache lookup: only a hit answers at once, every
\* error (transport error, no score, score not an integer) goes to the provider
AfterLookup(e) ==
  IF e = "none" THEN "done" ELSE "fetch"

\* parameter check and the cache lookup
GetUserData(p, s) ==
  /\ pc[p] = "idle"
  /\ nreq < MaxReq
  /\ nreq' = nreq + 1
  /\ op' = [op EXCEPT ![p] = "getUserData"]
  /\ sub' = [sub EXCEPT ![p] = s]
  /\ IF s = ""
     THEN /\ status' = [status EXCEPT ![p] = StatusBadRequest]
          /\ pc' = [pc EXCEPT ![p] = "done"]
          /\ UNCHANGED << err, userData, nfault, late >>
     ELSE \E down \in StoreFaults :
            LET r == getUserDataFromRedis(store, s, down) IN
            /\ nfault' = Count(down)
            /\ err' = [err EXCEPT ![p] = r.err]
            /\ late' = IF RedisKey(s) \in populated THEN late \cup {p} ELSE late
            /\ pc' = [pc EXCEPT ![p] = AfterLookup(r.err)]
            /\ IF AfterLookup(r.err) = "done"
               THEN /\ userData' = [userData EXCEPT ![p] = r.data]
                    /\ status' = [status EXCEPT ![p] =
                                    IF r.err = "none" THEN StatusOK
                                    ELSE StatusInternalServerError]
               ELSE UNCHANGED << userData, status >>
  /\ UNCHANGED << store, apiUserData, newScore, keys, idx, acc, calls,
                  populated, base, returned, streak, ord, failedAt >>

\* variant: the "return" after a failed provider call is missing
AfterFetchNoReturn(failed) ==
  "save"

\* "if err != nil { ... 500; return }" after fetchUserDataFromAPI
AfterFetch(failed) ==
  IF failed THEN "done" ELSE "save"

\* fetchUserDataFromAPI: the provider answers with a profile, or the call fails
\* (transport error, status other than 200, unreadable body) and yields UserData{}
FetchUserDataFromAPI(p) ==
  /\ pc[p] = "fetch"
  /\ calls' = [calls EXCEPT ![p] = @ + 1]
  /\ \E failed \in BOOLEAN :
       /\ \E u \in IF failed THEN {ZeroUserData} ELSE ProviderResponses(sub[p]) :
            apiUserData' = [apiUserData EXCEPT ![p] = u]
       /\ pc' = [pc EXCEPT ![p] = AfterFetch(failed)]
       /\ status' = IF failed
                    THEN [status EXCEPT ![p] = StatusInternalServerError]
                    ELSE status
  /\ UNCHANGED << store, op, sub, err, userData, newScore, keys, idx, acc, nreq,
                  nfault, late, populated, base, returned, streak, ord, failedAt >>

\* variant: the "return" after a failed write is missing
SaveOutcomeNoReturn(st, key, u, down) ==
  IF down THEN [st |-> st, status |-> StatusOK, written |-> FALSE]
  ELSE [st |-> HMSet(st, key, ProfileFields(u)), status |-> StatusOK,
        written |-> TRUE]

\* HMSet of the fetched profile and "if err != nil { ... 500; return }":
\* a failed write changes nothing and answers 500, a served one answers the
\* fetched profile
SaveOutcome(st, key, u, down) ==
  IF down THEN [st |-> st, status |-> StatusInternalServerError, written |-> FALSE]
  ELSE [st |-> HMSet(st, key, ProfileFields(u)), status |-> StatusOK,
        written |-> TRUE]

\* "Store fetched user data in Redis", then the response
SaveUserData(p) ==
  LET key == RedisKey(sub[p]) IN
  /\ pc[p] = "save"
  /\ pc' = [pc EXCEPT ![p] = "done"]
  /\ \E down \in StoreFaults :
       LET o == SaveOutcome(store, key, apiUserData[p], down) IN
       /\ nfault' = Count(down)
       /\ store' = o.st
       /\ status' = [status EXCEPT ![p] = o.status]
       /\ userData' = IF o.status = StatusOK
                      THEN [userData EXCEPT ![p] = apiUserData[p]] ELSE userData
       /\ IF ~o.written
          THEN UNCHANGED << populated, base, returned, streak >>
          ELSE /\ populated' = populated \cup {key}
               /\ base' = [base EXCEPT ![key] = apiUserData[p].Score]
               /\ returned' = [returned EXCEPT ![key] = << >>]
               /\ streak' = [streak EXCEPT ![key] = -1]
  /\ UNCHANGED << op, sub, err, apiUserData, newScore, keys, idx, acc, nreq,
                  calls, late, ord, failedAt >>

(***************************************************************************)
(* GET /user/incr?sub=  (incrementScore)                                   *)
(***************************************************************************)
\* parameter check and HINCRBY key score 1
IncrementScore(p, s) ==
  LET key == RedisKey(s)
      r == HIncrBy(store, key, "score", 1)
      overlap == \E q \in Procs \ {p} : pc[q] = "reread" /\ sub[q] = s
  IN
  /\ pc[p] = "idle"
  /\ nreq < MaxReq
  /\ nreq' = nreq + 1
  /\ op' = [op EXCEPT ![p] = "incrementScore"]
  /\ sub' = [sub EXCEPT ![p] = s]
  /\ IF s = ""
     THEN /\ status' = [status EXCEPT ![p] = StatusBadRequest]
          /\ pc' = [pc EXCEPT ![p] = "done"]
          /\ UNCHANGED << store, newScore, nfault, returned, streak >>
     ELSE \E down \in StoreFaults :
            /\ nfault' = Count(down)
            /\ IF down \/ r.err
               THEN /\ status' = [status EXCEPT ![p] = StatusInternalServerError]
                    /\ pc' = [pc EXCEPT ![p] = "done"]
                    /\ UNCHANGED << store, newScore, returned, streak >>
               ELSE /\ store' = r.st
                    /\ newScore' = [newScore EXCEPT ![p] = r.val]
                    /\ pc' = [pc EXCEPT ![p] = "reread"]
                    /\ returned' = [returned EXCEPT ![key] = Append(@, r.val)]
                    /\ streak' = IF overlap THEN [streak EXCEPT ![key] = -1]
                                 ELSE streak
                    /\ UNCHANGED status
  /\ UNCHANGED << err, apiUserData, userData, keys, idx, acc, calls, late,
                  populated, base, ord, failedAt >>

\* variant: the score of the answered profile is the increment's reply
IncrResponseFromReply(ns, u) ==
  [NewScore |-> ns, UserData |-> [u EXCEPT !.Score = ns]]

\* the response struct: the increment's reply beside the profile read afterwards
IncrResponse(ns, u) ==
  [NewScore |-> ns, UserData |-> u]

\* "Fetch updated user data from Redis", then the response
IncrReread(p) ==
  LET key == RedisKey(sub[p]) IN
  /\ pc[p] = "reread"
  /\ pc' = [pc EXCEPT ![p] = "done"]
  /\ \E down \in StoreFaults :
       LET r == getUserDataFromRedis(store, sub[p], down) IN
       /\ nfault' = Count(down)
       /\ err' = [err EXCEPT ![p] = r.err]
       /\ IF r.err # "none"
          THEN /\ status' = [status EXCEPT ![p] = StatusInternalServerError]
               /\ streak' = [streak EXCEPT ![key] = -1]
               /\ UNCHANGED << userData, ord >>
          ELSE /\ userData' = [userData EXCEPT
                                  ![p] = IncrResponse(newScore[p], r.data).UserData]
               /\ status' = [status EXCEPT ![p] = StatusOK]
               /\ streak' = IF streak[key] >= 0
                            THEN [streak EXCEPT ![key] = @ + 1] ELSE streak
               /\ ord' = IF streak[key] >= 0
                         THEN [ord EXCEPT ![p] = streak[key] + 1] ELSE ord
  /\ UNCHANGED << store, op, sub, apiUserData, newScore, keys, idx, acc, nreq,
                  calls, late, populated, base, returned, failedAt >>

\* the response is written and the worker is free again
Respond(p) ==
  /\ pc[p] = "done"
  /\ pc' = [pc EXCEPT ![p] = "idle"]
  /\ op' = [op EXCEPT ![p] = "none"]
  /\ sub' = [sub EXCEPT ![p] = ""]
  /\ err' = [err EXCEPT ![p] = "none"]
  /\ apiUserData' = [apiUserData EXCEPT ![p] = ZeroUserData]
  /\ userData' = [userData EXCEPT ![p] = ZeroUserData]
  /\ newScore' = [newScore EXCEPT ![p] = 0]
  /\ keys' = [keys EXCEPT ![p] = << >>]
  /\ idx' = [idx EXCEPT ![p] = 1]
  /\ acc' = [acc EXCEPT ![p] = << >>]
  /\ status' = [status EXCEPT ![p] = 0]
  /\ calls' = [calls EXCEPT ![p] = 0]
  /\ late' = late \ {p}
  /\ ord' = [ord EXCEPT ![p] = 0]
  /\ failedAt' = [failedAt EXCEPT ![p] = {}]
  /\ UNCHANGED << store, nreq, nfault, populated, base, returned, streak >>

(***************************************************************************)
(* GET /users  (getUsers)                                                  *)
(***************************************************************************)
\* KEYS user:*
GetUsers(p) ==
  /\ pc[p] = "idle"
  /\ nreq < MaxReq
  /\ nreq' = nreq + 1
  /\ op' = [op EXCEPT ![p] = "getUsers"]
  /\ \E down \in StoreFaults :
       /\ nfault' = Count(down)
       /\ IF down
          THEN /\ status' = [status EXCEPT ![p] = StatusInternalServerError]
               /\ pc' = [pc EXCEPT ![p] = "done"]
               /\ failedAt' = [failedAt EXCEPT ![p] = {0}]
               /\ UNCHANGED keys
          ELSE /\ \E order \in Enumerations(Keys(store)) :
                    keys' = [keys EXCEPT ![p] = order]
               /\ pc' = [pc EXCEPT ![p] = "users"]
               /\ UNCHANGED << status, failedAt >>
  /\ UNCHANGED << store, sub, err, apiUserData, userData, newScore, idx, acc,
                  calls, late, populated, base, returned, streak, ord >>

\* one iteration of "for _, key := range keys": read, then append or skip
UsersLoop(p) ==
  /\ pc[p] = "users"
  /\ idx[p] <= Len(keys[p])
  /\ \E down \in StoreFaults :
       LET r == getUserDataFromRedis(store, TrimPrefix(keys[p][idx[p]]), down) IN
       /\ nfault' = Count(down)
       /\ acc' = IF r.err = "none" THEN [acc EXCEPT ![p] = Append(@, r.data)]
                 ELSE acc
       /\ failedAt' = IF down THEN [failedAt EXCEPT ![p] = @ \cup {idx[p]}]
                      ELSE failedAt
  /\ idx' = [idx EXCEPT ![p] = @ + 1]
  /\ UNCHANGED << store, pc, op, sub, err, apiUserData, userData, newScore, keys,
                  status, nreq, calls, late, populated, base, returned, streak,
                  ord >>

\* c.JSON(http.StatusOK, users)
UsersDone(p) ==
  /\ pc[p] = "users"
  /\ idx[p] > Len(keys[p])
  /\ status' = [status EXCEPT ![p] = StatusOK]
  /\ pc' = [pc EXCEPT ![p] = "done"]
  /\ UNCHANGED << store, op, sub, err, apiUserData, userData, newScore, keys, idx,
                  acc, nreq, nfault, calls, late, populated, base, returned,
                  streak, ord, failedAt >>

(***************************************************************************)
(* GET /top-scores  (getTopScores)                                         *)
(***************************************************************************)
\* KEYS user:*
GetTopScores(p) ==
  /\ pc[p] = "idle"
  /\ nreq < MaxReq
  /\ nreq' = nreq + 1
  /\ op' = [op EXCEPT ![p] = "getTopScores"]
  /\ \E down \in StoreFaults :
       /\ nfault' = Count(down)
       /\ IF down
          THEN /\ status' = [status EXCEPT ![p] = StatusInternalServerError]
               /\ pc' = [pc EXCEPT ![p] = "done"]
               /\ failedAt' = [failedAt EXCEPT ![p] = {0}]
               /\ UNCHANGED keys
          ELSE /\ \E order \in Enumerations(Keys(store)) :
                    keys' = [keys EXCEPT ![p] = order]
               /\ pc' = [pc EXCEPT ![p] = "top"]
               /\ UNCHANGED << status, failedAt >>
  /\ UNCHANGED << store, sub, err, apiUserData, userData, newScore, idx, acc,
                  calls, late, populated, base, returned, streak, ord >>

\* one iteration of the loop: read, then append the projection or skip
TopLoop(p) ==
  /\ pc[p] = "top"
  /\ idx[p] <= Len(keys[p])
  /\ \E down \in StoreFaults :
       LET s == TrimPrefix(keys[p][idx[p]])
           r == getUserDataFromRedis(store, s, down)
       IN
       /\ nfault' = Count(down)
       /\ acc' = IF r.err = "none"
                 THEN [acc EXCEPT ![p] = Append(@, UserScore(s, r.data))]
                 ELSE acc
       /\ failedAt' = IF down THEN [failedAt EXCEPT ![p] = @ \cup {idx[p]}]
                      ELSE failedAt
  /\ idx' = [idx EXCEPT ![p] = @ + 1]
  /\ UNCHANGED << store, pc, op, sub, err, apiUserData, userData, newScore, keys,
                  status, nreq, calls, late, populated, base, returned, streak,
                  ord >>

\* sort descending by score, keep the first 10, respond
TopDone(p) ==
  /\ pc[p] = "top"
  /\ idx[p] > Len(keys[p])
  /\ acc' = [acc EXCEPT ![p] = Truncate(SortSlice(@))]
  /\ status' = [status EXCEPT ![p] = StatusOK]
  /\ pc' = [pc EXCEPT ![p] = "done"]
  /\ UNCHANGED << store, op, sub, err, apiUserData, userData, newScore, keys, idx,
                  nreq, nfault, calls, late, populated, base, returned, streak,
                  ord, failedAt >>

(***************************************************************************)
(* The server: any worker serves any request, against a store that starts  *)
(* empty.                                                                  *)
(***************************************************************************)
Next ==
  \E p \in Procs :
    \/ \E s \in ReqSubs \cup {""} : GetUserData(p, s)
    \/ FetchUserDataFromAPI(p)
    \/ SaveUserData(p)
    \/ \E s \in ReqSubs \cup {""} : IncrementScore(p, s)
    \/ IncrReread(p)
    \/ GetUsers(p)
    \/ UsersLoop(p)
    \/ UsersDone(p)
    \/ GetTopScores(p)
    \/ TopLoop(p)
    \/ TopDone(p)
    \/ Respond(p)

Spec ==
  Init /\ [][Next]_vars


(***************************************************************************)
(* The leaderboard over a store that earlier requests have filled: the     *)
(* first n subjects hold a record, odd ones a full profile (written by a   *)
(* populate), even ones a score alone (created by an increment).  The      *)
(* scores are flat with one spike, flat with one dip, or a ramp.           *)
(***************************************************************************)
SeedRecord(i, sc) ==
  IF i % 2 = 1 THEN ProfileFields(UserData(AllSubs[i], "img", "nick", "nm", sc))
  ELSE ("score" :> Itoa(sc))

SeedScores(n) ==
  {[i \in 1..n |-> IF i = a THEN 2 ELSE 1] : a \in 0..n}
    \cup {[i \in 1..n |-> IF i = a THEN 1 ELSE 2] : a \in 0..n}
    \cup {[i \in 1..n |-> i]}

SeededStore(n, rec) ==
  [k \in KeySpace |->
     IF SubIndex(TrimPrefix(k)) <= n THEN rec[SubIndex(TrimPrefix(k))]
     ELSE EmptyHash]

InitBoard ==
  /\ \E n \in 0..MaxPop : \E sc \in SeedScores(n) :
       store = SeededStore(n, [i \in 1..n |-> SeedRecord(i, sc[i])])
  /\ InitWorkers

\* one worker serving the leaderboard
Solo ==
  "w1"

NextBoard ==
  \/ GetTopScores(Solo)
  \/ TopLoop(Solo)
  \/ TopDone(Solo)
  \/ Respond(Solo)

SpecBoard ==
  InitBoard /\ [][NextBoard]_vars

(***************************************************************************)
(* The leaderboard over a store of TiePop records, some of equal score.    *)
(***************************************************************************)
InitTies ==
  /\ \E sc \in SeedScores(TiePop) :
       store = SeededStore(TiePop, [i \in 1..TiePop |-> SeedRecord(i, sc[i])])
  /\ InitWorkers

SpecTies ==
  InitTies /\ [][NextBoard]_vars

(***************************************************************************)
(* The listing over a store that other clients of the same Redis also      *)
(* write: a record may hold a score that is no integer, or no score.       *)
(***************************************************************************)
ForeignRecords(i) ==
  { ProfileFields(UserData(AllSubs[i], "img", "nick", "nm", 1)),
    ("score" :> Itoa(2)),
    ("sub" :> AllSubs[i]) @@ ("score" :> << "x" >>),
    ("sub" :> AllSubs[i]) @@ ("name" :> "nm"),
    ("sub" :> AllSubs[i]) @@ ("score" :> << "+", "3" >>) }

InitForeign ==
  /\ \E n \in 0..MaxForeign :
       \E rec \in [1..n -> UNION {ForeignRecords(i) : i \in 1..n}] :
         /\ \A i \in 1..n : rec[i] \in ForeignRecords(i)
         /\ store = SeededStore(n, rec)
  /\ InitWorkers

NextForeign ==
  \/ GetUsers(Solo)
  \/ UsersLoop(Solo)
  \/ UsersDone(Solo)
  \/ GetTopScores(Solo)
  \/ TopLoop(Solo)
  \/ TopDone(Solo)
  \/ Respond(Solo)

SpecForeign ==
  InitForeign /\ [][NextForeign]_vars


(***************************************************************************)
(* Properties.                                                             *)
(***************************************************************************)
Idle(q) ==
  pc[q] = "idle"

\* the integer a record's score field holds
ScoreOf(rec) ==
  Atoi(rec["score"]).val

\* C1: when getProfile populates the store (the lookup missed, the provider
\* answered, the write succeeded), it responds with the provider's Profile, and
\* a store-only read of "user:"+s right after the write yields a Profile whose
\* sub, image, nickname, name and score are the provider's.
C1_PopulateThenReadBack ==
  [][\A p \in Procs :
       (pc[p] = "save" /\ pc'[p] = "done" /\ status'[p] = StatusOK)
         => /\ userData'[p] = apiUserData[p]
            /\ getUserDataFromRedis(store', sub[p], FALSE)
                 = [err |-> "none", data |-> apiUserData[p]]]_vars

\* a lone getProfile on an unseen subject has populated the store and answered
C1_Witness ==
  \E p \in Procs :
    /\ pc[p] = "done" /\ op[p] = "getUserData" /\ status[p] = StatusOK
    /\ err[p] = "notfound" /\ calls[p] = 1
    /\ userData[p].Score = 3
    /\ getUserDataFromRedis(store, sub[p], FALSE).data = userData[p]
    /\ \A q \in Procs \ {p} : Idle(q)

\* C2: once a populate has written the record of s, a getProfile(s) that begins
\* afterwards and whose store read is answered ends at once with status 200 and
\* the stored Profile; it never calls the provider and never writes the store.
C2_PopulatedIsServedFromStore ==
  /\ [](\A p \in late :
          err[p] # "unavailable"
            => pc[p] = "done" /\ status[p] = StatusOK /\ calls[p] = 0)
  /\ [][\A p \in Procs :
          (pc[p] = "idle" /\ p \in late' /\ err'[p] # "unavailable")
            => /\ store' = store
               /\ ProfileFields(userData'[p]) = store[RedisKey(sub'[p])]]_vars

\* a second getProfile on a populated subject was served from the store
C2_Witness ==
  \E p \in late :
    /\ pc[p] = "done" /\ status[p] = StatusOK /\ err[p] = "none"
    /\ calls[p] = 0
    /\ RedisKey(sub[p]) \in populated
    /\ ProfileFields(userData[p]) = store[RedisKey(sub[p])]

\* C3: the score stored under a key never decreases: once the field exists,
\* a step leaves it alone or adds exactly 1.
C3_ScoreNeverDecreases ==
  [][\A k \in KeySpace :
       "score" \in DOMAIN store[k]
         => /\ "score" \in DOMAIN store'[k]
            /\ ScoreOf(store'[k]) \in {ScoreOf(store[k]), ScoreOf(store[k]) + 1}]_vars

\* C4: the replies of the increments on a key since the last populate wrote it
\* (or since the start, from 0) are base+1, base+2, ..., base+K in the order the
\* store served them, and the stored score is base+K: no increment is lost and
\* no two replies are equal, however the requests interleave.
C4_IncrementsAreAtomic ==
  \A k \in KeySpace :
    /\ \A i \in 1..Len(returned[k]) : returned[k][i] = base[k] + i
    /\ IF "score" \in DOMAIN store[k]
       THEN ScoreOf(store[k]) = base[k] + Len(returned[k])
       ELSE base[k] = 0 /\ returned[k] = << >>

\* two increments of one subject are in flight together, both already counted
C4_Witness ==
  \E p, q \in Procs :
    /\ p # q /\ pc[p] = "reread" /\ pc[q] = "reread" /\ sub[p] = sub[q]
    /\ newScore[p] # newScore[q]
    /\ Len(returned[RedisKey(sub[p])]) >= 2

\* C5: the k-th of N successful incrementScore(s) requests that run one after
\* the other on a subject without a record, nothing else modifying it, answers
\* newScore = k.
C5_SequentialIncrements ==
  \A p \in Procs :
    (pc[p] = "done" /\ op[p] = "incrementScore" /\ ord[p] > 0)
      => status[p] = StatusOK /\ newScore[p] = ord[p]

\* the third increment in a row has answered 3
C5_Witness ==
  \E p \in Procs :
    /\ pc[p] = "done" /\ op[p] = "incrementScore" /\ status[p] = StatusOK
    /\ ord[p] = 3 /\ newScore[p] = 3
    /\ RedisKey(sub[p]) \notin populated


Min(a, b) ==
  IF a <= b THEN a ELSE b

Range(f) ==
  {f[x] : x \in DOMAIN f}

\* an optional sign followed by one or more decimal digits
IntegerText(s) ==
  \E k \in 0..1 :
    /\ Len(s) > k
    /\ k = 1 => s[1] \in {"+", "-"}
    /\ \A i \in (k + 1)..Len(s) : s[i] \in Range(Digits)

HasIntegerScore(rec) ==
  "score" \in DOMAIN rec /\ IntegerText(rec["score"])

\* the positions of worker p's enumeration whose record was read: the round
\* trip was answered and the record holds an integer score
ReadOk(p) ==
  {i \in 1..Len(keys[p]) :
     i \notin failedAt[p] /\ HasIntegerScore(store[keys[p][i]])}

NonIncreasing(seq) ==
  \A i \in 1..(Len(seq) - 1) : seq[i].Score >= seq[i + 1].Score

\* worker p has answered a leaderboard request whose enumeration succeeded
TopAnswered(p) ==
  pc[p] = "done" /\ op[p] = "getTopScores" /\ 0 \notin failedAt[p]

\* C6 (as stated): the leaderboard is non-increasing by score and its length is
\* min(10, population), population being the number of records under "user:".
C6_LengthIsMinOfPopulation ==
  \A p \in Procs :
    TopAnswered(p)
      => /\ NonIncreasing(acc[p])
         /\ Len(acc[p]) = Min(TopLimit, Cardinality(Keys(store)))

\* C6 (amended): the leaderboard is non-increasing by score and its length is
\* min(10, r), r being the number of enumerated keys whose read was answered and
\* whose score is an integer; the other keys are skipped and do not count.
C6_LengthIsMinOfRead ==
  \A p \in Procs :
    TopAnswered(p)
      => /\ status[p] = StatusOK
         /\ NonIncreasing(acc[p])
         /\ Len(acc[p]) = Min(TopLimit, Cardinality(ReadOk(p)))

\* eleven records, none skipped: ten are answered, the scores not all equal
C6_Witness ==
  \E p \in Procs :
    /\ TopAnswered(p)
    /\ Len(keys[p]) = TopLimit + 1 /\ failedAt[p] = {}
    /\ Len(acc[p]) = TopLimit
    /\ acc[p][1].Score > acc[p][TopLimit].Score

\* the leaderboard entry of the record under key k
EntryOf(k) ==
  [Sub |-> TrimPrefix(k), Score |-> ScoreOf(store[k]),
   Nickname |-> MapGet(store[k], "nickname"), Image |-> MapGet(store[k], "image")]

Listed(p, i) ==
  \E j \in 1..Len(acc[p]) : acc[p][j].Sub = TrimPrefix(keys[p][i])

\* C7: the leaderboard holds the highest-scoring records read: every entry is
\* the projection of a distinct record read from the store, no record read and
\* left out has a score above that of any entry, and when at most 10 records
\* were read all of them are entries.
C7_TopAreTheHighest ==
  \A p \in Procs :
    TopAnswered(p)
      => /\ \A j \in 1..Len(acc[p]) :
              \E i \in ReadOk(p) : acc[p][j] = EntryOf(keys[p][i])
         /\ \A j1, j2 \in 1..Len(acc[p]) :
              j1 # j2 => acc[p][j1].Sub # acc[p][j2].Sub
         /\ \A i \in ReadOk(p) :
              ~Listed(p, i)
                => \A j \in 1..Len(acc[p]) :
                     ScoreOf(store[keys[p][i]]) <= acc[p][j].Score
         /\ Cardinality(ReadOk(p)) <= TopLimit
              => \A i \in ReadOk(p) : Listed(p, i)

\* eleven records read, the one left out enumerated first and scoring lowest
C7_Witness ==
  \E p \in Procs :
    /\ TopAnswered(p)
    /\ Cardinality(ReadOk(p)) = TopLimit + 1
    /\ ~Listed(p, 1)
    /\ ScoreOf(store[keys[p][1]]) < acc[p][TopLimit].Score

ProfileOf(rec) ==
  UserData(MapGet(rec, "sub"), MapGet(rec, "image"), MapGet(rec, "nickname"),
           MapGet(rec, "name"), ScoreOf(rec))

\* the profiles of the first n enumerated keys that were read, in order
RECURSIVE ExpectedUsers(_, _)
ExpectedUsers(p, n) ==
  IF n = 0 THEN << >>
  ELSE IF n \in ReadOk(p)
  THEN Append(ExpectedUsers(p, n - 1), ProfileOf(store[keys[p][n]]))
  ELSE ExpectedUsers(p, n - 1)

\* C8: when the enumeration succeeds listProfiles never answers an error: it
\* answers 200 with one profile for every enumerated key whose read was answered
\* and whose score is an integer, in enumeration order, and nothing for a key
\* whose score is absent or not numeric or whose read failed.
C8_ListSkipsUnreadable ==
  \A p \in Procs :
    (op[p] = "getUsers" /\ 0 \notin failedAt[p])
      => /\ pc[p] \in {"users", "done"}
         /\ status[p] = IF pc[p] = "done" THEN StatusOK ELSE 0
         /\ pc[p] = "done" => idx[p] = Len(keys[p]) + 1
         /\ acc[p] = ExpectedUsers(p, idx[p] - 1)

\* three keys listed: one profile answered, one record skipped for its score,
\* one for a failed read
C8_Witness ==
  \E p \in Procs :
    /\ pc[p] = "done" /\ op[p] = "getUsers" /\ status[p] = StatusOK
    /\ Len(keys[p]) = 3 /\ Len(acc[p]) = 1
    /\ Cardinality(failedAt[p]) = 1
    /\ \E i \in 1..3 : i \notin failedAt[p] /\ ~HasIntegerScore(store[keys[p][i]])

\* C9: in getProfile, when the lookup missed, the provider answered and the
\* write of the fetched profile fails, the request answers a server error
\* without the profile, and the store is left as it was.
C9_FailedSaveIsAnError ==
  [][\A p \in Procs :
       (pc[p] = "save" /\ pc'[p] = "done" /\ nfault' # nfault)
         => /\ status'[p] = StatusInternalServerError
            /\ userData'[p] = ZeroUserData
            /\ store' = store]_vars

\* the lookup missed, the provider answered, the write failed: 500, no record
C9_Witness ==
  \E p \in Procs :
    /\ pc[p] = "done" /\ op[p] = "getUserData"
    /\ err[p] = "notfound" /\ calls[p] = 1 /\ apiUserData[p] # ZeroUserData
    /\ status[p] = StatusInternalServerError
    /\ store[RedisKey(sub[p])] = EmptyHash

C11_ProviderFailureIsTerminal ==
  /\ [](\A p \in Procs : calls[p] <= 1)
  /\ [][\A p \in Procs :
          (pc[p] = "fetch" /\ pc'[p] # "fetch" /\ apiUserData'[p] = ZeroUserData)
            => /\ pc'[p] = "done"
               /\ status'[p] = StatusInternalServerError
               /\ userData'[p] = ZeroUserData
               /\ calls'[p] = 1
               /\ store' = store]_vars

\* the lookup missed, the one provider call failed: 500, and still no record
C11_Witness ==
  \E p \in Procs :
    /\ pc[p] = "done" /\ op[p] = "getUserData" /\ err[p] = "notfound"
    /\ calls[p] = 1 /\ apiUserData[p] = ZeroUserData /\ nfault = 0
    /\ status[p] = StatusInternalServerError
    /\ store[RedisKey(sub[p])] = EmptyHash

\* C12: the Profile of an incrementScore response is the record as stored when
\* it is re-read, not as the request's own increment left it: it agrees with
\* newScore when the requests on the subject run one after the other, and two
\* overlapping requests reach a response whose newScore differs from its
\* Profile's score.
C12_RereadIsALaterSnapshot ==
  [][\A p \in Procs :
       (pc[p] = "reread" /\ pc'[p] = "done" /\ status'[p] = StatusOK)
         => /\ newScore'[p] = newScore[p]
            /\ userData'[p].Score = ScoreOf(store[RedisKey(sub[p])])
            /\ ord'[p] > 0 => userData'[p].Score = newScore[p]]_vars

\* two increments of one subject overlap: the first answers newScore 1 beside a
\* profile that already carries the second one's 2
C12_Witness ==
  \E p, q \in Procs :
    /\ p # q /\ sub[p] = sub[q] /\ RedisKey(sub[p]) \notin populated
    /\ op[p] = "incrementScore" /\ op[q] = "incrementScore"
    /\ pc[p] = "done" /\ status[p] = StatusOK
    /\ newScore[p] = 1 /\ newScore[q] = 2
    /\ userData[p].Score = 2

\* C13: once the increment of incrementScore(s) has succeeded the record of s
\* holds an integer score, and a record that holds one holds one at every later
\* state, whatever getProfile and incrementScore requests interleave; so the
\* re-read ends in neither NotFound nor Malformed (only a failed round trip can
\* fail it), and incrementScore never calls the identity provider.
C13_RecordExistsAfterIncrement ==
  /\ [](\A p \in Procs :
          op[p] = "incrementScore"
            => /\ calls[p] = 0
               /\ pc[p] \in {"reread", "done"}
               /\ err[p] \in {"none", "unavailable"}
               /\ pc[p] = "reread" => HasIntegerScore(store[RedisKey(sub[p])]))
  /\ [][\A k \in KeySpace :
          HasIntegerScore(store[k]) => HasIntegerScore(store'[k])]_vars

\* a populate of the subject landed between the increment and its re-read, and
\* the re-read still found the record: newScore 1, the provider's score 3
C13_Witness ==
  \E p \in Procs :
    /\ pc[p] = "done" /\ op[p] = "incrementScore" /\ status[p] = StatusOK
    /\ err[p] = "none" /\ calls[p] = 0
    /\ RedisKey(sub[p]) \in populated
    /\ newScore[p] = 1 /\ userData[p].Score = 3

\* field f of the record under k is the same, present or absent, in st1 and st2
SameField(st1, st2, k, f) ==
  /\ f \in DOMAIN st1[k] <=> f \in DOMAIN st2[k]
  /\ f \in DOMAIN st1[k] => st1[k][f] = st2[k][f]

\* C14: the increment step of incrementScore(s) changes nothing but the score
\* field of "user:"+s, and its re-read step changes nothing at all: every other
\* field of that record and every field of every other record stay as they
\* were. On a subject without a record the step creates the record holding
\* only score=1 and replies 1, and such a request, run with nothing else
\* touching the subject, answers newScore=1 and a Profile with score 1 and
\* empty sub, image, nickname and name.
C14_IncrementTouchesOnlyScore ==
  /\ [][\A p \in Procs :
          /\ (pc[p] = "idle" /\ op'[p] = "incrementScore")
               => /\ \A k \in KeySpace :
                       \A f \in DOMAIN store[k] \cup DOMAIN store'[k] :
                         (k # RedisKey(sub'[p]) \/ f # "score")
                           => SameField(store, store', k, f)
                  /\ (pc'[p] = "reread" /\ store[RedisKey(sub'[p])] = EmptyHash)
                       => /\ store'[RedisKey(sub'[p])] = ("score" :> << "1" >>)
                          /\ newScore'[p] = 1
          /\ (pc[p] = "reread" /\ pc'[p] = "done") => store' = store]_vars
  /\ [](\A p \in Procs :
          (pc[p] = "done" /\ op[p] = "incrementScore" /\ ord[p] = 1)
            => /\ status[p] = StatusOK /\ newScore[p] = 1
               /\ userData[p] = UserData("", "", "", "", 1))

\* one subject was populated and then incremented, its profile fields kept
\* beside the score 4; another, without a record, was incremented and answered
\* 1 with an otherwise empty profile
C14_Witness ==
  \E p \in Procs : \E s \in ReqSubs :
    /\ pc[p] = "done" /\ op[p] = "incrementScore" /\ ord[p] = 1
    /\ sub[p] # s
    /\ newScore[p] = 1 /\ userData[p] = UserData("", "", "", "", 1)
    /\ store[RedisKey(sub[p])] = ("score" :> << "1" >>)
    /\ RedisKey(s) \in populated
    /\ store[RedisKey(s)] = ProfileFields(UserData(s, "img", "nick", "nm", 4))

\* the position of subject s in worker p's key enumeration
KeyPos(p, s) ==
  CHOOSE i \in 1..Len(keys[p]) : keys[p][i] = RedisKey(s)

\* C15: the sort of topScores is stable: two entries of equal score stand in
\* the answer in the order their keys had in the enumeration of that call.
C15_SortIsStable ==
  \A p \in Procs :
    TopAnswered(p)
      => \A j1, j2 \in 1..Len(acc[p]) :
           (j1 < j2 /\ acc[p][j1].Score = acc[p][j2].Score)
             => KeyPos(p, acc[p][j1].Sub) < KeyPos(p, acc[p][j2].Sub)

\* C16: every record stored under "user:"+s holds s as its subject field, in
\* every reachable state.
C16_SubjectMatchesKey ==
  \A k \in Keys(store) :
    "sub" \in DOMAIN store[k] /\ store[k]["sub"] = TrimPrefix(k)

\* C17: from an empty store, whatever requests interleave and whatever store
\* or provider calls fail, every existing record holds a score that parses as
\* an integer; so an iteration of listProfiles or topScores whose read is
\* answered always appends an entry: a key is skipped only for a failed read.
C17_EveryRecordHasIntegerScore ==
  /\ [](\A k \in Keys(store) :
          HasIntegerScore(store[k]) /\ ~Atoi(store[k]["score"]).err)
  /\ [][\A p \in Procs :
          (pc[p] \in {"users", "top"} /\ idx'[p] = idx[p] + 1
             /\ idx[p] \notin failedAt'[p])
            => Len(acc'[p]) = Len(acc[p]) + 1]_vars

\* a populated record and a record an increment created are both listed
C17_Witness ==
  \E p \in Procs :
    /\ pc[p] = "done" /\ op[p] = "getUsers" /\ status[p] = StatusOK
    /\ Len(keys[p]) = 2 /\ Len(acc[p]) = 2 /\ failedAt[p] = {}
    /\ \E k1, k2 \in Keys(store) :
         /\ k1 \in populated /\ DOMAIN store[k1] = DOMAIN ProfileFields(ZeroUserData)
         /\ k2 \notin populated /\ store[k2] = ("score" :> << "1" >>)

\* C18: on a subject no getProfile has populated, every incrementScore response
\* carries a Profile whose score is at least its newScore: the re-read can be
\* ahead of the request's own increment, never behind it.
C18_SnapshotNeverBehind ==
  [][\A p \in Procs :
       (pc[p] = "reread" /\ pc'[p] = "done" /\ status'[p] = StatusOK
          /\ RedisKey(sub[p]) \notin populated)
         => userData'[p].Score >= newScore'[p]]_vars

\* the second of three increments answers 2 beside a profile already at 3
C18_Witness ==
  \E p \in Procs :
    /\ pc[p] = "done" /\ op[p] = "incrementScore" /\ status[p] = StatusOK
    /\ RedisKey(sub[p]) \notin populated
    /\ newScore[p] = 2 /\ userData[p].Score = 3
    /\ store[RedisKey(sub[p])] = ("score" :> << "3" >>)

\* a record an increment created: the score and nothing else
ScoreOnly(rec) ==
  DOMAIN rec = {"score"}

\* worker p begins a getProfile on the subject of key k in this step
BeginsGetProfile(p, k) ==
  pc[p] = "idle" /\ op'[p] = "getUserData" /\ RedisKey(sub'[p]) = k

\* the answer of a hit on the score-only record under k
IsScoreOnlyHit(p, k) ==
  /\ pc'[p] = "done" /\ status'[p] = StatusOK /\ calls'[p] = 0
  /\ userData'[p] = UserData("", "", "", "", ScoreOf(store[k]))
  /\ store' = store

====
